---------------------------- MODULE Spec2Model ----------------------------
(***************************************************************************)
(* Model of the two pieces of logic of n8n-nodes-solar that have edge-case *)
(* behaviour:                                                              *)
(*   - the response-format JSON repair of the Information Extraction node  *)
(*     (InformationExtractionUpstage.node.ts), and                         *)
(*   - the SSE stream decoder of the document-chat model                   *)
(*     (DocumentChatModelUpstage.node.ts, _streamResponseChunks).          *)
(*                                                                         *)
(* A JavaScript string is a sequence of atoms.  An atom is one character   *)
(* ("{", "LF", "ZW", ...) or a word ("type", "properties", ...) standing   *)
(* for a run of letters that no regular expression of the code tells from  *)
(* any other run of letters.                                               *)
(***************************************************************************)
EXTENDS Integers, Sequences, FiniteSets, TLC

\* ------------------------------------------------------------ characters
QT == "\""
BS == "BS"       \* backslash
SP == " "
LF == "LF"       \* \n
CR == "CR"       \* \r
ZW == "ZW"       \* U+200B..U+200D: zero width, not white space
BOM == "BOM"     \* U+FEFF: zero width, and white space for trim() and \s
FFFD == "FFFD"   \* U+FFFD, the decoder's replacement character

\* JSON's insignificant white space (ECMA-404): space, tab, LF, CR.
IsJsonWs(c) == c \in {SP, LF, CR}
\* ECMAScript WhiteSpace and LineTerminator: what trim() strips and \s matches.
IsJsSpace(c) == c \in {SP, LF, CR, BOM}
\* The class [{}[\]":,] of the compression regular expressions.
IsDelimiter(c) == c \in {"{", "}", "[", "]", QT, ":", ","}
Digits == {"0", "1"}
Literals == {"null", "true", "false"}

\* ------------------------------------------------------- sequence helpers
Undefined == <<>>

RECURSIVE Repeat(_, _)
Repeat(c, n) == IF n <= 0 THEN <<>> ELSE <<c>> \o Repeat(c, n - 1)

RECURSIVE Count(_, _)
Count(s, c) == IF s = <<>> THEN 0
               ELSE (IF Head(s) = c THEN 1 ELSE 0) + Count(Tail(s), c)

RECURSIVE Flatten(_)
Flatten(ss) == IF ss = <<>> THEN <<>> ELSE Head(ss) \o Flatten(Tail(ss))

StartsWith(s, p) == Len(s) >= Len(p) /\ SubSeq(s, 1, Len(p)) = p

\* Length of the run of c that ends the string (0 when it does not end in c).
RECURSIVE TrailingRun(_, _)
TrailingRun(s, c) == IF s # <<>> /\ s[Len(s)] = c
                     THEN 1 + TrailingRun(SubSeq(s, 1, Len(s) - 1), c)
                     ELSE 0

\* ------------------------------------------------------------ JSON.parse
RECURSIVE SkipWs(_, _)
SkipWs(s, i) == IF i <= Len(s) /\ IsJsonWs(s[i]) THEN SkipWs(s, i + 1) ELSE i

\* i: the index after an opening quote.  The index after the closing quote, or
\* 0 when the literal is unterminated, holds a raw control character or a bad
\* escape.
RECURSIVE ScanString(_, _)
ScanString(s, i) ==
    IF i > Len(s) THEN 0
    ELSE IF s[i] = QT THEN i + 1
    ELSE IF s[i] = BS
         THEN IF i + 1 <= Len(s) /\ s[i + 1] \in {QT, BS}
              THEN ScanString(s, i + 2) ELSE 0
    ELSE IF s[i] \in {LF, CR} THEN 0
    ELSE ScanString(s, i + 1)

RECURSIVE ScanDigits(_, _)
ScanDigits(s, i) == IF i <= Len(s) /\ s[i] \in Digits THEN ScanDigits(s, i + 1) ELSE i

\* The index after the JSON value that starts at i, or 0 when there is none.
RECURSIVE ParseValue(_, _)
RECURSIVE ParseMembers(_, _)
RECURSIVE ParseElements(_, _)
ParseValue(s, i) ==
    IF i > Len(s) THEN 0
    ELSE CASE s[i] = QT -> ScanString(s, i + 1)
           [] s[i] = "0" -> i + 1
           [] s[i] = "1" -> ScanDigits(s, i + 1)
           [] s[i] \in Literals -> i + 1
           [] s[i] = "{" ->
                LET j == SkipWs(s, i + 1)
                IN  IF j <= Len(s) /\ s[j] = "}" THEN j + 1 ELSE ParseMembers(s, j)
           [] s[i] = "[" ->
                LET j == SkipWs(s, i + 1)
                IN  IF j <= Len(s) /\ s[j] = "]" THEN j + 1 ELSE ParseElements(s, j)
           [] OTHER -> 0

ParseMembers(s, i) ==
    IF i > Len(s) \/ s[i] # QT THEN 0
    ELSE LET k == ScanString(s, i + 1)
         IN  IF k = 0 THEN 0
             ELSE LET c == SkipWs(s, k)
                  IN  IF c > Len(s) \/ s[c] # ":" THEN 0
                      ELSE LET v == ParseValue(s, SkipWs(s, c + 1))
                           IN  IF v = 0 THEN 0
                               ELSE LET d == SkipWs(s, v)
                                    IN  IF d > Len(s) THEN 0
                                        ELSE IF s[d] = "}" THEN d + 1
                                        ELSE IF s[d] = ","
                                             THEN ParseMembers(s, SkipWs(s, d + 1))
                                        ELSE 0

ParseElements(s, i) ==
    LET v == ParseValue(s, i)
    IN  IF v = 0 THEN 0
        ELSE LET d == SkipWs(s, v)
             IN  IF d > Len(s) THEN 0
                 ELSE IF s[d] = "]" THEN d + 1
                 ELSE IF s[d] = "," THEN ParseElements(s, SkipWs(s, d + 1))
                 ELSE 0

\* JSON.parse(s) does not throw.
JsonValid(s) ==
    LET e == ParseValue(s, SkipWs(s, 1))
    IN  e # 0 /\ SkipWs(s, e) = Len(s) + 1

\* The value JSON.parse(s) returns for a valid s, as its text without the
\* insignificant white space: two valid texts with the same canonical text
\* parse to equal values.
RECURSIVE CanonFrom(_, _, _)
CanonFrom(s, i, inStr) ==
    IF i > Len(s) THEN <<>>
    ELSE IF inStr
         THEN IF s[i] = BS /\ i < Len(s)
              THEN <<s[i], s[i + 1]>> \o CanonFrom(s, i + 2, TRUE)
              ELSE <<s[i]>> \o CanonFrom(s, i + 1, s[i] # QT)
    ELSE IF IsJsonWs(s[i]) THEN CanonFrom(s, i + 1, FALSE)
    ELSE <<s[i]>> \o CanonFrom(s, i + 1, s[i] = QT)

JsonParse(s) == CanonFrom(s, 1, FALSE)

\* typeof v === 'object' && v !== null
IsObject(v) == v # Undefined /\ v[1] \in {"{", "["}

\* v.key of a parsed value: the value of the last member named key of an
\* object, undefined otherwise.
RECURSIVE FieldFrom(_, _, _, _)
FieldFrom(v, i, key, acc) ==
    IF v[i] = "}" THEN acc
    ELSE LET k == ScanString(v, i + 1)
             e == ParseValue(v, k + 1)
             acc2 == IF SubSeq(v, i, k - 1) = <<QT, key, QT>>
                     THEN SubSeq(v, k + 1, e - 1) ELSE acc
         IN  IF v[e] = "}" THEN acc2 ELSE FieldFrom(v, e + 1, key, acc2)

GetField(v, key) ==
    IF v # Undefined /\ v[1] = "{" THEN FieldFrom(v, 2, key, Undefined) ELSE Undefined

\* ToBoolean of a parsed value.
Truthy(v) == v \notin {Undefined, <<QT, QT>>, <<"0">>, <<"null">>, <<"false">>}


\* ------------------------------------------------- string operations (JS)
RECURSIVE TrimStart(_)
TrimStart(s) == IF s # <<>> /\ IsJsSpace(Head(s)) THEN TrimStart(Tail(s)) ELSE s

RECURSIVE TrimEnd(_)
TrimEnd(s) == IF s # <<>> /\ IsJsSpace(s[Len(s)])
              THEN TrimEnd(SubSeq(s, 1, Len(s) - 1)) ELSE s

\* String.prototype.trim
Trim(s) == TrimEnd(TrimStart(s))

\* The removal with a character class that names the byte-order mark alone.
RemoveZeroWidth_bomOnly(s) == LET Kept(c) == c # BOM IN SelectSeq(s, Kept)

\* .replace(/[\u200B-\u200D\uFEFF]/g, '')
RemoveZeroWidth(s) == LET Kept(c) == c \notin {ZW, BOM} IN SelectSeq(s, Kept)

\* .replace(/\r\n/g, '\n')
RECURSIVE CrLfToLf(_)
CrLfToLf(s) ==
    IF s = <<>> THEN <<>>
    ELSE IF Len(s) >= 2 /\ s[1] = CR /\ s[2] = LF
         THEN <<LF>> \o CrLfToLf(SubSeq(s, 3, Len(s)))
    ELSE <<Head(s)>> \o CrLfToLf(Tail(s))

\* .replace(/\r/g, '\n')
CrToLf(s) == [i \in 1..Len(s) |-> IF s[i] = CR THEN LF ELSE s[i]]

\* .replace(/\n/g, '')
RemoveLf(s) == LET Kept(c) == c # LF IN SelectSeq(s, Kept)

\* .replace(/\s+/g, ' ')
RECURSIVE CollapseSpaces(_)
CollapseSpaces(s) ==
    IF s = <<>> THEN <<>>
    ELSE IF IsJsSpace(Head(s)) THEN <<SP>> \o CollapseSpaces(TrimStart(s))
    ELSE <<Head(s)>> \o CollapseSpaces(Tail(s))

\* .replace(/\s*([{}[\]":,])/g, '$1')
RECURSIVE StripBeforeDelimiter(_)
StripBeforeDelimiter(s) ==
    IF s = <<>> THEN <<>>
    ELSE IF IsJsSpace(Head(s))
         THEN LET r == TrimStart(s)
              IN  IF r # <<>> /\ IsDelimiter(Head(r))
                  THEN StripBeforeDelimiter(r)
                  ELSE SubSeq(s, 1, Len(s) - Len(r)) \o StripBeforeDelimiter(r)
    ELSE <<Head(s)>> \o StripBeforeDelimiter(Tail(s))

\* .replace(/([{}[\]":,])\s*/g, '$1')
RECURSIVE StripAfterDelimiter(_)
StripAfterDelimiter(s) ==
    IF s = <<>> THEN <<>>
    ELSE IF IsDelimiter(Head(s))
         THEN <<Head(s)>> \o StripAfterDelimiter(TrimStart(Tail(s)))
    ELSE <<Head(s)>> \o StripAfterDelimiter(Tail(s))

\* ---------------------------------------- the repair stages of the node
\* The cleansing with all white space removed, not only that at the ends.
CleanseFull_stripsAllSpace(s) ==
    LET Kept(c) == ~IsJsSpace(c) IN SelectSeq(RemoveZeroWidth(s), Kept)

\* Step 1 of the Full Response Format branch: the basic cleansing.
CleanseFull(s) == CrToLf(CrLfToLf(RemoveZeroWidth(Trim(s))))

\* The cleansing of the Schema Only branch.
CleanseSchema(s) == RemoveZeroWidth(Trim(s))

\* The "compressed JSON" cleansing applied when the first parse failed.
CompressJson(s) ==
    Trim(StripAfterDelimiter(StripBeforeDelimiter(CollapseSpaces(RemoveLf(s)))))

\* The brace repair of validateAndFixJsonStructure; the counts are those of
\* the function's argument.  .replace(/\}+$/, '}'.repeat(close - extra))
\* replaces the run of '}' that ends the string, when there is one.
FixBraces(s, openBraces, closeBraces) ==
    IF openBraces > closeBraces
    THEN s \o Repeat("}", openBraces - closeBraces)
    ELSE IF closeBraces > openBraces /\ TrailingRun(s, "}") > 0
         THEN SubSeq(s, 1, Len(s) - TrailingRun(s, "}"))
                \o Repeat("}", closeBraces - (closeBraces - openBraces))
    ELSE s

\* The bracket repair of validateAndFixJsonStructure.
FixBrackets(s, openBrackets, closeBrackets) ==
    IF openBrackets > closeBrackets
    THEN s \o Repeat("]", openBrackets - closeBrackets)
    ELSE IF closeBrackets > openBrackets /\ TrailingRun(s, "]") > 0
         THEN SubSeq(s, 1, Len(s) - TrailingRun(s, "]"))
                \o Repeat("]", closeBrackets - (closeBrackets - openBrackets))
    ELSE s

\* Stages 1 and 2 of validateAndFixJsonStructure: fixedJson before its parse.
BalanceStructure(jsonString) ==
    FixBrackets(FixBraces(jsonString, Count(jsonString, "{"), Count(jsonString, "}")),
                Count(jsonString, "["), Count(jsonString, "]"))

\* propertiesPattern = /("properties":\{[^}]*)\}\}\}\}/g, replaced by '$1}}}'.
PropertiesPrefix == <<QT, "properties", QT, ":", "{">>

RECURSIVE FirstClose(_, _)
FirstClose(s, i) == IF i <= Len(s) /\ s[i] # "}" THEN FirstClose(s, i + 1) ELSE i

\* The properties pattern replaced by '$1': the four braces are dropped.
RECURSIVE FixPropertiesFrom_dropsBraces(_, _)
FixPropertiesFrom_dropsBraces(s, i) ==
    IF i > Len(s) THEN <<>>
    ELSE IF StartsWith(SubSeq(s, i, Len(s)), PropertiesPrefix)
         THEN LET j == FirstClose(s, i + Len(PropertiesPrefix))
              IN  IF j + 3 <= Len(s) /\ SubSeq(s, j, j + 3) = Repeat("}", 4)
                  THEN SubSeq(s, i, j - 1) \o FixPropertiesFrom_dropsBraces(s, j + 4)
                  ELSE <<s[i]>> \o FixPropertiesFrom_dropsBraces(s, i + 1)
    ELSE <<s[i]>> \o FixPropertiesFrom_dropsBraces(s, i + 1)

RECURSIVE FixPropertiesFrom(_, _)
FixPropertiesFrom(s, i) ==
    IF i > Len(s) THEN <<>>
    ELSE IF StartsWith(SubSeq(s, i, Len(s)), PropertiesPrefix)
         THEN LET j == FirstClose(s, i + Len(PropertiesPrefix))
              IN  IF j + 3 <= Len(s) /\ SubSeq(s, j, j + 3) = Repeat("}", 4)
                  THEN SubSeq(s, i, j - 1) \o Repeat("}", 3)
                         \o FixPropertiesFrom(s, j + 4)
                  ELSE <<s[i]>> \o FixPropertiesFrom(s, i + 1)
    ELSE <<s[i]>> \o FixPropertiesFrom(s, i + 1)

FixPropertiesClosure(s) == FixPropertiesFrom(s, 1)

\* Length of the run of c that starts the string.
RECURSIVE LeadingRun(_, _)
LeadingRun(s, c) == IF s # <<>> /\ Head(s) = c THEN 1 + LeadingRun(Tail(s), c) ELSE 0

\* .replace(/\}\}\}+/g, match => match.length > 2 ? '}}' : match)
RECURSIVE CollapseBraces(_)
CollapseBraces(s) ==
    IF s = <<>> THEN <<>>
    ELSE IF Head(s) = "}"
         THEN LET n == LeadingRun(s, "}")
              IN  Repeat("}", IF n >= 3 THEN 2 ELSE n)
                    \o CollapseBraces(SubSeq(s, n + 1, Len(s)))
    ELSE <<Head(s)>> \o CollapseBraces(Tail(s))

advancedJsonFix(jsonString) == CollapseBraces(FixPropertiesClosure(jsonString))

\* validateAndFixJsonStructure as a function of its argument.
validateAndFixJsonStructure(jsonString) ==
    LET fixedJson == BalanceStructure(jsonString)
    IN  IF JsonValid(fixedJson) THEN fixedJson
        ELSE IF JsonValid(advancedJsonFix(fixedJson)) THEN advancedJsonFix(fixedJson)
        ELSE jsonString

\* ------------------------------------------------------------ the inputs
\* A quoted word: the text of a JSON string literal.
Str(w) == <<QT, w, QT>>

\* {"type":"json_schema","json_schema":{"properties":{}}}
DocChain ==
    <<"{">> \o Str("type") \o <<":">> \o Str("json_schema") \o <<",">>
      \o Str("json_schema") \o <<":", "{">> \o Str("properties") \o <<":", "{", "}", "}", "}">>

\* {"json_schema":{},"type":"json_schema"}
DocInner ==
    <<"{">> \o Str("json_schema") \o <<":", "{", "}", ",">>
      \o Str("type") \o <<":">> \o Str("json_schema") \o <<"}">>

\* {"type":"json_schema","json_schema":{"x":"{}}}"}}
DocBraceText ==
    <<"{">> \o Str("type") \o <<":">> \o Str("json_schema") \o <<",">>
      \o Str("json_schema") \o <<":", "{">> \o Str("x")
      \o <<":", QT, "{", "}", "}", "}", QT, "}", "}">>

\* {\r\n"type": "json_schema",\n"json_schema":{" x":[]}\r}
DocPretty ==
    <<"{", CR, LF>> \o Str("type") \o <<":", SP>> \o Str("json_schema") \o <<",", LF>>
      \o Str("json_schema") \o <<":", "{", QT, SP, "x", QT, ":", "[", "]", "}", CR, "}">>

\* {"type":"json_schema","json_schema":{"x":"{}}}\n"}}: a line break typed
\* inside a string literal, which JSON.parse rejects.
DocBrokenLine ==
    <<"{">> \o Str("type") \o <<":">> \o Str("json_schema") \o <<",">>
      \o Str("json_schema") \o <<":", "{">> \o Str("x")
      \o <<":", QT, "{", "}", "}", "}", LF, QT, "}", "}">>

\* {"type":"","json_schema":{}}
DocEmptyType ==
    <<"{">> \o Str("type") \o <<":", QT, QT, ",">> \o Str("json_schema") \o <<":", "{", "}", "}">>

\* [1]
DocArray == <<"[", "1", "]">>

\* 1
DocNumber == <<"1">>

BaseDocs ==
    {DocChain, DocInner, DocBraceText, DocPretty, DocBrokenLine, DocEmptyType, DocArray,
     DocNumber}

\* At most this many edits are made to a base document.
MaxEdits == 2

NoEdits == [drop |-> 0, brace |-> 0, bracket |-> 0, zw |-> 0, bom |-> 0]
EditCount(e) == e.drop + e.brace + e.bracket + e.zw + e.bom

\* s without its last '}'.
RECURSIVE WithoutLast(_, _)
WithoutLast(s, c) ==
    IF s = <<>> THEN <<>>
    ELSE IF s[Len(s)] = c THEN SubSeq(s, 1, Len(s) - 1)
    ELSE WithoutLast(SubSeq(s, 1, Len(s) - 1), c) \o <<s[Len(s)]>>

InsertAt(s, p, c) == SubSeq(s, 1, p - 1) \o <<c>> \o SubSeq(s, p, Len(s))

\* --------------------------------------------------------------- the state
VARIABLES
    schemaInputType,  \* the node parameter: "schema" or "full"
    rawKind,          \* typeof of the json parameter: "string", "object", "null", "number"
    raw,              \* the parameter: its text, or the JSON text of the object
    base,             \* the document the text was made from
    edits,            \* how many edits of each kind made raw from base
    pc,               \* the position in execute for the item
    jsonString,       \* the argument of validateAndFixJsonStructure
    fixedJson,        \* its local fixedJson
    cleanedJson,      \* the local cleanedJson of execute
    parsedJson,       \* the local parsedJson (Undefined before the parse)
    responseFormat,   \* the local responseFormat (Undefined before it is set)
    trace,            \* the stages run so far, in order
    requests,         \* the response_format of each request sent
    error             \* the message of the error caught for the item, or ""

ieVars == <<schemaInputType, rawKind, raw, base, edits, pc, jsonString, fixedJson,
            cleanedJson, parsedJson, responseFormat, trace, requests, error>>

VARIABLES
    frames,     \* the kinds of the lines the server sends, in order
    stream,     \* the bytes of the response body
    response,   \* what callDocumentChatAPI got: "none" before the call
    acquired,   \* how many times response.body.getReader() was called
    released,   \* how many times reader.releaseLock() was called
    aborted,    \* the caller's abort signal has fired
    pos,        \* how many of the bytes reader.read() has delivered
    pending,    \* the bytes the TextDecoder holds back (an incomplete character)
    buffer,     \* the local buffer: the text after the last newline
    lines,      \* the complete lines of the current chunk not yet handled
    emitted,    \* the chunks yielded so far
    ssePc,      \* the position in _streamResponseChunks or _generate
    sseError,   \* the message of the error thrown to the caller, or ""
    fetches,    \* how many times callDocumentChatAPI called fetch
    generated,  \* the generations _generate returned
    tokenErrors,\* how many times runManager.handleLLMNewToken threw
    handled     \* the lines the for loop has taken, in order

sseVars == <<frames, stream, response, acquired, released, aborted, pos, pending, buffer,
             lines, emitted, ssePc, sseError, fetches, generated, tokenErrors, handled>>

VARIABLES
    dec         \* two calls of _streamResponseChunks: the locals of each

pairVars == <<dec>>

VARIABLES
    node,           \* the node whose execute runs
    operation,      \* the operation parameter of the node
    outcomes,       \* what happens to each input item
    continueOnFail, \* this.continueOnFail()
    item,           \* i, the index of the for loop, from 0
    returnData,     \* the records pushed so far
    httpRequests,   \* the items an HTTP request was sent for, in order
    execPc,         \* the position in execute
    execError,      \* the item whose error execute threw, or -1
    output          \* what execute returned: <<>> before, <<returnData>> after

loopVars == <<node, operation, outcomes, continueOnFail, item, returnData, httpRequests,
              execPc, execError, output>>

vars == <<ieVars, sseVars, pairVars, loopVars>>

\* The two decoders are not running.
PairIdle == dec = <<>>

\* No execute is running.
LoopIdle ==
    /\ node = "none" /\ operation = "none" /\ outcomes = <<>> /\ continueOnFail = FALSE
    /\ item = 0 /\ returnData = <<>> /\ httpRequests = <<>> /\ execPc = "idle"
    /\ execError = -1 /\ output = <<>>

\* The decoder is not running.
SseIdle ==
    /\ frames = <<>> /\ stream = <<>> /\ response = "none" /\ acquired = 0
    /\ released = 0 /\ aborted = FALSE /\ pos = 0 /\ pending = <<>> /\ buffer = <<>>
    /\ lines = <<>> /\ emitted = <<>> /\ ssePc = "idle" /\ sseError = ""
    /\ fetches = 0 /\ generated = <<>> /\ tokenErrors = 0 /\ handled = <<>>

\* What a step of the Information Extraction node leaves alone.
ieRest == <<sseVars, pairVars, loopVars>>

\* What a step of the decoder leaves alone.
sseRest == <<ieVars, pairVars, loopVars>>

\* The Information Extraction node is not running.
IeIdle ==
    /\ schemaInputType = "full" /\ rawKind = "string" /\ raw = <<>> /\ base = <<>>
    /\ edits = NoEdits /\ pc = "idle" /\ jsonString = <<>> /\ fixedJson = <<>>
    /\ cleanedJson = <<>> /\ parsedJson = Undefined /\ responseFormat = Undefined
    /\ trace = <<>> /\ requests = <<>> /\ error = ""

\* ------------------------------- InformationExtractionUpstage.execute
\* The parameters of one item: the schema input mode and the json parameter,
\* a string or (from an expression) an already-parsed value.
Init ==
    /\ schemaInputType \in {"schema", "full"}
    /\ rawKind \in {"string", "object", "null", "number"}
    /\ base \in BaseDocs
    /\ rawKind = "object" => JsonValid(base) /\ IsObject(JsonParse(base))
    /\ rawKind \in {"null", "number"} => base = DocNumber
    /\ raw = IF rawKind = "string" THEN base
             ELSE IF rawKind = "null" THEN <<"null">> ELSE JsonParse(base)
    /\ edits = NoEdits
    /\ pc = "param"
    /\ jsonString = <<>> /\ fixedJson = <<>> /\ cleanedJson = <<>>
    /\ parsedJson = Undefined /\ responseFormat = Undefined
    /\ trace = <<>> /\ requests = <<>> /\ error = ""
    /\ SseIdle /\ PairIdle /\ LoopIdle

CanEdit == pc = "param" /\ rawKind = "string" /\ EditCount(edits) < MaxEdits

Edited(newRaw, kind) ==
    /\ raw' = newRaw
    /\ edits' = [edits EXCEPT ![kind] = @ + 1]
    /\ UNCHANGED <<schemaInputType, rawKind, base, pc, jsonString, fixedJson, cleanedJson,
                   parsedJson, responseFormat, trace, requests, error>>
    /\ UNCHANGED ieRest

\* The text loses its last '}'.
DropLastBrace ==
    /\ CanEdit /\ Count(raw, "}") > 0
    /\ Edited(WithoutLast(raw, "}"), "drop")

\* The text gains a '}' at its end.
AppendBrace == CanEdit /\ Edited(raw \o <<"}">>, "brace")

\* The text gains a ']' at its end.
AppendBracket == CanEdit /\ Edited(raw \o <<"]">>, "bracket")

\* A zero-width character gets into the text, anywhere.
InsertZeroWidth ==
    /\ CanEdit
    /\ \E p \in 1..(Len(raw) + 1) : Edited(InsertAt(raw, p, ZW), "zw")

\* The text gets a byte-order mark.
PrependBom == CanEdit /\ edits.bom = 0 /\ Edited(<<BOM>> \o raw, "bom")

\* throw inside the try of execute: the item's catch gets the error.
Fail(msg) == pc' = "failed" /\ error' = msg

\* Schema Only mode: the schema is cleansed and parsed, never repaired, and
\* response_format is built around it.
SchemaResponseFormat(schemaObj) ==
    <<"{">> \o Str("type") \o <<":">> \o Str("json_schema") \o <<",">>
      \o Str("json_schema") \o <<":", "{">> \o Str("name") \o <<":">> \o Str("document_schema")
      \o <<",">> \o Str("schema") \o <<":">> \o schemaObj \o <<"}", "}">>

ParseSchemaOnly ==
    /\ pc = "param" /\ schemaInputType = "schema"
    /\ IF rawKind = "string"
       THEN /\ cleanedJson' = CleanseSchema(raw)
            /\ IF JsonValid(CleanseSchema(raw))
               THEN /\ parsedJson' = JsonParse(CleanseSchema(raw))
                    /\ responseFormat' = SchemaResponseFormat(JsonParse(CleanseSchema(raw)))
                    /\ pc' = "messages" /\ error' = error
               ELSE /\ Fail("Invalid JSON schema provided")
                    /\ UNCHANGED <<parsedJson, responseFormat>>
       ELSE IF rawKind = "object"
       THEN /\ parsedJson' = raw
            /\ responseFormat' = SchemaResponseFormat(raw)
            /\ pc' = "messages"
            /\ UNCHANGED <<cleanedJson, error>>
       ELSE /\ Fail("Invalid schema data type")
            /\ UNCHANGED <<cleanedJson, parsedJson, responseFormat>>
    /\ UNCHANGED <<schemaInputType, rawKind, raw, base, edits, jsonString, fixedJson,
                   trace, requests>>
    /\ UNCHANGED ieRest

\* Full Response Format mode, a parameter that is not a string: an object is
\* taken as it is, anything else is an error.
TakeFullObject ==
    /\ pc = "param" /\ schemaInputType = "full" /\ rawKind # "string"
    /\ IF rawKind = "object"
       THEN responseFormat' = raw /\ pc' = "messages" /\ error' = error
       ELSE Fail("Invalid response format data type") /\ responseFormat' = responseFormat
    /\ UNCHANGED <<schemaInputType, rawKind, raw, base, edits, jsonString, fixedJson,
                   cleanedJson, parsedJson, trace, requests>>
    /\ UNCHANGED ieRest

\* Step 1: the basic cleansing of the string.
Cleanse ==
    /\ pc = "param" /\ schemaInputType = "full" /\ rawKind = "string"
    /\ cleanedJson' = CleanseFull(raw)
    /\ trace' = Append(trace, "cleanse")
    /\ pc' = "directParse"
    /\ UNCHANGED <<schemaInputType, rawKind, raw, base, edits, jsonString, fixedJson,
                   parsedJson, responseFormat, requests, error>>
    /\ UNCHANGED ieRest

\* Step 2: parsedJson = JSON.parse(cleanedJson); the catch leads to the repair.
DirectParse ==
    /\ pc = "directParse"
    /\ trace' = Append(trace, "parse")
    /\ IF JsonValid(cleanedJson)
       THEN parsedJson' = JsonParse(cleanedJson) /\ pc' = "checkFields"
       ELSE parsedJson' = parsedJson /\ pc' = "compress"
    /\ UNCHANGED <<schemaInputType, rawKind, raw, base, edits, jsonString, fixedJson,
                   cleanedJson, responseFormat, requests, error>>
    /\ UNCHANGED ieRest

\* The compression of cleanedJson, handed to validateAndFixJsonStructure.
Compress ==
    /\ pc = "compress"
    /\ cleanedJson' = CompressJson(cleanedJson)
    /\ jsonString' = CompressJson(cleanedJson)
    /\ trace' = Append(trace, "compress")
    /\ pc' = "balance"
    /\ UNCHANGED <<schemaInputType, rawKind, raw, base, edits, fixedJson,
                   parsedJson, responseFormat, requests, error>>
    /\ UNCHANGED ieRest

\* validateAndFixJsonStructure, to its first parse: the counts and the
\* brace and bracket repair.
Balance ==
    /\ pc = "balance"
    /\ fixedJson' = BalanceStructure(jsonString)
    /\ trace' = Append(trace, "validateAndFixJsonStructure")
    /\ pc' = "basicParse"
    /\ UNCHANGED <<schemaInputType, rawKind, raw, base, edits, jsonString, cleanedJson,
                   parsedJson, responseFormat, requests, error>>
    /\ UNCHANGED ieRest

\* JSON.parse(fixedJson): return fixedJson, or go on to the advanced fix.
BasicParse ==
    /\ pc = "basicParse"
    /\ IF JsonValid(fixedJson)
       THEN cleanedJson' = fixedJson /\ pc' = "reparse"
       ELSE cleanedJson' = cleanedJson /\ pc' = "advancedFix"
    /\ UNCHANGED <<schemaInputType, rawKind, raw, base, edits, jsonString, fixedJson,
                   parsedJson, responseFormat, trace, requests, error>>
    /\ UNCHANGED ieRest

\* fixedJson = advancedJsonFix(fixedJson)
AdvancedFix ==
    /\ pc = "advancedFix"
    /\ fixedJson' = advancedJsonFix(fixedJson)
    /\ trace' = Append(trace, "advancedJsonFix")
    /\ pc' = "finalParse"
    /\ UNCHANGED <<schemaInputType, rawKind, raw, base, edits, jsonString, cleanedJson,
                   parsedJson, responseFormat, requests, error>>
    /\ UNCHANGED ieRest

\* The final parse returning the repaired text whether or not it parses.
FinalParse_keepsRepair ==
    /\ pc = "finalParse"
    /\ cleanedJson' = fixedJson
    /\ pc' = "reparse"
    /\ UNCHANGED <<schemaInputType, rawKind, raw, base, edits, jsonString, fixedJson,
                   parsedJson, responseFormat, trace, requests, error>>
    /\ UNCHANGED ieRest

\* The final JSON.parse(fixedJson): return fixedJson, or the argument.
FinalParse ==
    /\ pc = "finalParse"
    /\ cleanedJson' = IF JsonValid(fixedJson) THEN fixedJson ELSE jsonString
    /\ pc' = "reparse"
    /\ UNCHANGED <<schemaInputType, rawKind, raw, base, edits, jsonString, fixedJson,
                   parsedJson, responseFormat, trace, requests, error>>
    /\ UNCHANGED ieRest

\* parsedJson = JSON.parse(cleanedJson) on what validateAndFixJsonStructure
\* returned; this parse is in no try of its own.
Reparse ==
    /\ pc = "reparse"
    /\ IF JsonValid(cleanedJson)
       THEN parsedJson' = JsonParse(cleanedJson) /\ pc' = "checkFields" /\ error' = error
       ELSE parsedJson' = parsedJson /\ Fail("Invalid full response format JSON provided")
    /\ UNCHANGED <<schemaInputType, rawKind, raw, base, edits, jsonString, fixedJson,
                   cleanedJson, responseFormat, trace, requests>>
    /\ UNCHANGED ieRest

\* Steps 3 and 4: parsedJson is an object, and has a type and a json_schema.
HasRequiredFields(v) == Truthy(GetField(v, "type")) /\ Truthy(GetField(v, "json_schema"))

CheckFields ==
    /\ pc = "checkFields"
    /\ IF ~IsObject(parsedJson)
       THEN Fail("Parsed result is not a valid JSON object") /\ responseFormat' = responseFormat
       ELSE IF ~HasRequiredFields(parsedJson)
       THEN Fail("Missing required fields: type or json_schema")
            /\ responseFormat' = responseFormat
       ELSE responseFormat' = parsedJson /\ pc' = "messages" /\ error' = error
    /\ UNCHANGED <<schemaInputType, rawKind, raw, base, edits, jsonString, fixedJson,
                   cleanedJson, parsedJson, trace, requests>>
    /\ UNCHANGED ieRest

\* The document of the item: binary data or an image URL, which may be missing.
BuildMessages ==
    /\ pc = "messages"
    /\ \E present \in BOOLEAN :
          IF present THEN pc' = "request" /\ error' = error
          ELSE Fail("No binary data found / Image URL is required")
    /\ UNCHANGED <<schemaInputType, rawKind, raw, base, edits, jsonString, fixedJson,
                   cleanedJson, parsedJson, responseFormat, trace, requests>>
    /\ UNCHANGED ieRest

\* The request is sent with response_format: responseFormat; it is answered,
\* or httpRequestWithAuthentication rejects.
SendRequest ==
    /\ pc = "request"
    /\ requests' = Append(requests, responseFormat)
    /\ \E ok \in BOOLEAN :
          IF ok THEN pc' = "done" /\ error' = error
          ELSE Fail("request failed")
    /\ UNCHANGED <<schemaInputType, rawKind, raw, base, edits, jsonString, fixedJson,
                   cleanedJson, parsedJson, responseFormat, trace>>
    /\ UNCHANGED ieRest

Next ==
    \/ DropLastBrace \/ AppendBrace \/ AppendBracket \/ InsertZeroWidth \/ PrependBom
    \/ ParseSchemaOnly \/ TakeFullObject
    \/ Cleanse \/ DirectParse \/ Compress \/ Balance \/ BasicParse \/ AdvancedFix
    \/ FinalParse \/ Reparse \/ CheckFields
    \/ BuildMessages \/ SendRequest

Spec == Init /\ [][Next]_vars

\* --------------------------- UpstageDocumentChatModel._streamResponseChunks
\* The lines of the event stream.  A byte is an atom; U+00E9 is the two bytes
\* C3 A9, every other character of the lines is one byte.
DataPrefix == <<"data", ":", SP>>       \* 'data: ', six characters
EventPrefix == <<"event", ":">>         \* 'event:'
DoneMarker == <<"[", "DONE", "]">>      \* '[DONE]'
OutputTextDelta == "response.output_text.delta"
ReasoningDelta == "response.reasoning_summary_text.delta"

\* {"type":"<type>","delta":"<text>"<extra>}
DeltaEventWith(type, text, extra) ==
    <<"{">> \o Str("type") \o <<":">> \o Str(type) \o <<",">>
      \o Str("delta") \o <<":", QT>> \o text \o <<QT>> \o extra \o <<"}">>

DeltaEvent(type, text) == DeltaEventWith(type, text, <<>>)

\* ,"usage":1,"conversation_id":"c1"
UsageAndConversationId ==
    <<",">> \o Str("usage") \o <<":", "1", ",">> \o Str("conversation_id") \o <<":">> \o Str("c1")

\* ,"conversation":{"id":"c2"}
ConversationObject ==
    <<",">> \o Str("conversation") \o <<":", "{">> \o Str("id") \o <<":">> \o Str("c2") \o <<"}">>

\* {"output":[{"type":"message","content":[{"text":"m"}]}]}: the shape of a
\* non-streaming response, sent as one frame.
MessageFrame ==
    <<"{">> \o Str("output") \o <<":", "[", "{">> \o Str("type") \o <<":">> \o Str("message")
      \o <<",">> \o Str("content") \o <<":", "[", "{">> \o Str("text") \o <<":">> \o Str("m")
      \o <<"}", "]", "}", "]", "}">>

\* The bytes of a line of each kind, without its newline.
FrameBytes(kind) ==
    CASE kind = "outA" -> DataPrefix \o DeltaEvent(OutputTextDelta, <<"a">>)
      [] kind = "outE" -> DataPrefix \o DeltaEvent(OutputTextDelta, <<"C3", "A9">>)
      [] kind = "outU" ->
           DataPrefix \o DeltaEventWith(OutputTextDelta, <<"u">>, UsageAndConversationId)
      [] kind = "outC" ->
           DataPrefix \o DeltaEventWith(OutputTextDelta, <<"c">>, ConversationObject)
      [] kind = "outNil" -> DataPrefix \o DeltaEvent(OutputTextDelta, <<>>)
      [] kind = "reason" -> DataPrefix \o DeltaEvent(ReasoningDelta, <<"r">>)
      [] kind = "msg" -> DataPrefix \o MessageFrame
      [] kind = "bad" ->
           LET e == DeltaEvent(OutputTextDelta, <<"a">>)
           IN  DataPrefix \o SubSeq(e, 1, Len(e) - 1)
      [] kind = "done" -> DataPrefix \o DoneMarker
      [] kind = "event" -> EventPrefix \o <<SP, OutputTextDelta>>
      [] kind = "blank" -> <<>>
      [] kind = "indented" -> <<SP>> \o DataPrefix \o DeltaEvent(OutputTextDelta, <<"a">>)
      [] kind = "null" -> DataPrefix \o <<"null">>
      [] kind = "outNum" ->
           DataPrefix \o <<"{">> \o Str("type") \o <<":">> \o Str(OutputTextDelta)
             \o <<",">> \o Str("delta") \o <<":", "1", "}">>

\* The lines a server sends: the streams of the model are the runs of at most
\* MaxFrames consecutive lines of this script.
Script ==
    <<"outA", "bad", "outE", "done", "event", "outA", "blank", "reason", "outE", "msg",
      "outU", "outNil", "outC", "reason", "reason", "indented", "outA", "null", "outNum",
      "outE">>

MaxFrames == 3

StreamShapes ==
    {SubSeq(Script, w[1], w[2]) :
        w \in {v \in (1..Len(Script)) \X (0..Len(Script)) :
                  v[2] >= v[1] - 1 /\ v[2] - v[1] + 1 <= MaxFrames}}

\* The body: the lines, each ended by a newline, the last one only when the
\* stream is cut at a line end.
RECURSIVE EncodeFrames(_, _)
EncodeFrames(fs, terminated) ==
    IF fs = <<>> THEN <<>>
    ELSE FrameBytes(Head(fs))
           \o (IF Len(fs) > 1 \/ terminated THEN <<LF>> ELSE <<>>)
           \o EncodeFrames(Tail(fs), terminated)

\* The UTF-8 decoder: the text of the bytes that follow the held-back bytes
\* pend, and the bytes of an incomplete character at their end.  C3 begins a
\* character and A9 completes it only right after C3, so what a byte decodes
\* to is decided by its neighbours; a stray byte decodes to U+FFFD.
DecodeBytes(pend, bytes) ==
    LET all == pend \o bytes
        Piece(i) ==
            IF all[i] = "C3"
            THEN IF i = Len(all) \/ all[i + 1] = "A9" THEN "" ELSE FFFD
            ELSE IF all[i] = "A9"
                 THEN IF i > 1 /\ all[i - 1] = "C3" THEN "E9" ELSE FFFD
            ELSE all[i]
        Emitted(c) == c # ""
    IN  [text |-> SelectSeq([i \in 1..Len(all) |-> Piece(i)], Emitted),
         pend |-> IF all # <<>> /\ all[Len(all)] = "C3" THEN <<"C3">> ELSE <<>>]

\* decoder.decode(value) without the stream option: an incomplete character
\* at the end of the chunk is flushed as U+FFFD.
TextDecode_noStream(pend, value) ==
    LET r == DecodeBytes(<<>>, value)
    IN  [text |-> r.text \o (IF r.pend # <<>> THEN <<FFFD>> ELSE <<>>), pend |-> <<>>]

\* decoder.decode(value, { stream: true })
TextDecode(pend, value) == DecodeBytes(pend, value)

\* text.split('\n')
RECURSIVE SplitLines(_)
SplitLines(text) ==
    LET n == Len(text) - Len(RemoveLf(text))
    IN  IF n = 0 THEN <<text>>
        ELSE LET i == CHOOSE k \in 1..Len(text) :
                          text[k] = LF /\ \A j \in 1..(k - 1) : text[j] # LF
             IN  <<SubSeq(text, 1, i - 1)>> \o SplitLines(SubSeq(text, i + 1, Len(text)))

\* The text of the string literal v.
TextOf(v) == SubSeq(v, 2, Len(v) - 1)

IsString(v) == v # <<>> /\ v[1] = QT

\* A conversation id read from data.conversation_id alone.
ConversationId_topLevelOnly(data) == GetField(data, "conversation_id")

\* generationInfo.conversation_id: data.conversation?.id || data.conversation_id
ConversationId(data) ==
    LET id == GetField(GetField(data, "conversation"), "id")
    IN  IF Truthy(id) THEN id ELSE GetField(data, "conversation_id")

\* data.type === type && data.delta
IsDelta(data, type) == GetField(data, "type") = Str(type) /\ Truthy(GetField(data, "delta"))

\* line.slice(6).trim()
Payload(line) == Trim(SubSeq(line, Len(DataPrefix) + 1, Len(line)))

\* The line reaches the try of the loop: it is not blank, not an event:
\* line, starts with 'data: ' and is not the [DONE] marker.
IsPayloadLine(line) ==
    /\ Trim(line) # <<>> /\ ~StartsWith(line, EventPrefix) /\ StartsWith(line, DataPrefix)
    /\ Payload(line) # DoneMarker

\* The inner try throws: JSON.parse rejects the payload, data is null
\* (data.type), or a truthy delta has no substring method (the console.log
\* of the delta).  The catch logs it and the loop goes on.
PayloadThrows(jsonStr) ==
    \/ ~JsonValid(jsonStr)
    \/ JsonParse(jsonStr) = <<"null">>
    \/ LET data == JsonParse(jsonStr)
       IN  /\ IsDelta(data, OutputTextDelta) \/ IsDelta(data, ReasoningDelta)
           /\ ~IsString(GetField(data, "delta"))

LineThrows(line) == IsPayloadLine(line) /\ PayloadThrows(Payload(line))

\* The chunk yielded for an output-text delta.
Chunk(data) ==
    [text |-> TextOf(GetField(data, "delta")),
     usage |-> GetField(data, "usage"),
     conversation_id |-> ConversationId(data)]

\* A line handler that also yields the reasoning-summary deltas.
HandleLine_yieldsReasoning(line) ==
    IF ~IsPayloadLine(line) \/ PayloadThrows(Payload(line)) THEN <<>>
    ELSE LET data == JsonParse(Payload(line))
         IN  IF IsDelta(data, OutputTextDelta) \/ IsDelta(data, ReasoningDelta)
             THEN <<Chunk(data)>> ELSE <<>>

\* A line handler that trims the line before it looks at its prefix.
HandleLine_trimsLine(line) ==
    LET t == Trim(line)
    IN  IF ~IsPayloadLine(t) \/ PayloadThrows(Payload(t)) THEN <<>>
        ELSE LET data == JsonParse(Payload(t))
             IN  IF IsDelta(data, OutputTextDelta) THEN <<Chunk(data)>> ELSE <<>>

\* The body of the for loop for one line: the chunks it yields, none or one.
\* Only an output-text delta sets deltaText; a reasoning-summary delta is
\* logged.
HandleLine(line) ==
    IF ~IsPayloadLine(line) \/ PayloadThrows(Payload(line)) THEN <<>>
    ELSE LET data == JsonParse(Payload(line))
         IN  IF IsDelta(data, OutputTextDelta) THEN <<Chunk(data)>> ELSE <<>>

\* A streaming call for one of the streams.
InitSSE ==
    /\ IeIdle /\ PairIdle /\ LoopIdle
    /\ \/ /\ ssePc = "call" /\ frames \in StreamShapes
          /\ \E terminated \in BOOLEAN : stream = EncodeFrames(frames, terminated)
       \/ ssePc = "generate" /\ frames = <<>> /\ stream = <<>>
    /\ response = "none" /\ acquired = 0 /\ released = 0 /\ aborted = FALSE
    /\ pos = 0 /\ pending = <<>> /\ buffer = <<>> /\ lines = <<>> /\ emitted = <<>>
    /\ sseError = "" /\ fetches = 0 /\ generated = <<>> /\ tokenErrors = 0
    /\ handled = <<>>

\* A call that takes the reader of whatever response it got.
CallApi_noChecks ==
    /\ ssePc = "call"
    /\ \E outcome \in {"ok", "not ok", "no body", "rejected"} :
          /\ response' = outcome
          /\ CASE outcome = "no body" ->
                    ssePc' = "failed" /\ sseError' = "TypeError" /\ acquired' = acquired
               [] outcome = "rejected" ->
                    ssePc' = "failed" /\ sseError' = "fetch failed" /\ acquired' = acquired
               [] OTHER -> ssePc' = "read" /\ sseError' = "" /\ acquired' = acquired + 1
    /\ fetches' = fetches + 1
    /\ UNCHANGED <<frames, stream, released, aborted, pos, pending, buffer, lines, emitted>>
    /\ UNCHANGED <<generated, tokenErrors, handled>>
    /\ UNCHANGED sseRest

\* A call that sends the request again when the first attempt fails.
CallApi_retries ==
    /\ ssePc = "call"
    /\ \E outcome \in {"ok", "not ok", "no body", "rejected"} :
          /\ response' = outcome
          /\ fetches' = IF outcome \in {"not ok", "rejected"} THEN fetches + 2
                        ELSE fetches + 1
          /\ CASE outcome = "ok" ->
                    ssePc' = "read" /\ sseError' = "" /\ acquired' = acquired + 1
               [] outcome = "not ok" ->
                    /\ ssePc' = "failed" /\ sseError' = "Document Chat API error"
                    /\ acquired' = acquired
               [] outcome = "no body" ->
                    /\ ssePc' = "failed" /\ sseError' = "No response body for streaming"
                    /\ acquired' = acquired
               [] outcome = "rejected" ->
                    ssePc' = "failed" /\ sseError' = "fetch failed" /\ acquired' = acquired
    /\ UNCHANGED <<frames, stream, released, aborted, pos, pending, buffer, lines, emitted>>
    /\ UNCHANGED <<generated, tokenErrors, handled>>
    /\ UNCHANGED sseRest

\* callDocumentChatAPI(messages, true, signal): one fetch, which may reject,
\* and a throw when the status is not ok; the catch rethrows.  Then the check
\* of response.body and response.body.getReader().
CallApi ==
    /\ ssePc = "call"
    /\ \E outcome \in {"ok", "not ok", "no body", "rejected"} :
          /\ response' = outcome
          /\ fetches' = fetches + 1
          /\ CASE outcome = "ok" ->
                    ssePc' = "read" /\ sseError' = "" /\ acquired' = acquired + 1
               [] outcome = "not ok" ->
                    /\ ssePc' = "failed" /\ sseError' = "Document Chat API error"
                    /\ acquired' = acquired
               [] outcome = "no body" ->
                    /\ ssePc' = "failed" /\ sseError' = "No response body for streaming"
                    /\ acquired' = acquired
               [] outcome = "rejected" ->
                    ssePc' = "failed" /\ sseError' = "fetch failed" /\ acquired' = acquired
    /\ UNCHANGED <<frames, stream, released, aborted, pos, pending, buffer, lines, emitted>>
    /\ UNCHANGED <<generated, tokenErrors, handled>>
    /\ UNCHANGED sseRest

\* _generate: callDocumentChatAPI(messages, false, signal) and the text of
\* the first message item of response.output, '' when there is none.
Generate ==
    /\ ssePc = "generate"
    /\ \E outcome \in {"ok", "not ok", "rejected"} :
          /\ response' = outcome
          /\ fetches' = fetches + 1
          /\ CASE outcome = "ok" ->
                    /\ ssePc' = "done" /\ sseError' = ""
                    /\ \E contentText \in {<<>>, <<"m">>} :
                          generated' = <<[text |-> contentText]>>
               [] outcome = "not ok" ->
                    /\ ssePc' = "failed" /\ sseError' = "Document Chat API error"
                    /\ generated' = generated
               [] outcome = "rejected" ->
                    ssePc' = "failed" /\ sseError' = "fetch failed" /\ generated' = generated
    /\ UNCHANGED <<frames, stream, acquired, released, aborted, pos, pending, buffer, lines,
                   emitted, tokenErrors, handled>>
    /\ UNCHANGED sseRest

\* The caller's abort signal fires while the stream is being read.  The
\* signal was given to fetch and to nothing else: it errors the body.
Abort ==
    /\ ssePc \in {"read", "lines", "yield"} /\ ~aborted
    /\ aborted' = TRUE
    /\ UNCHANGED <<frames, stream, response, acquired, released, pos, pending, buffer,
                   lines, emitted, ssePc, sseError>>
    /\ UNCHANGED <<fetches, generated, tokenErrors, handled>>
    /\ UNCHANGED sseRest

\* A chunk split into lines without the text kept from the chunk before.
Deliver_splitsChunkOnly(n) ==
    LET decoded == TextDecode(pending, SubSeq(stream, pos + 1, pos + n))
        parts == SplitLines(decoded.text)
    IN  /\ pos' = pos + n
        /\ pending' = decoded.pend
        /\ lines' = SubSeq(parts, 1, Len(parts) - 1)
        /\ buffer' = parts[Len(parts)]
        /\ ssePc' = IF Len(parts) > 1 THEN "lines" ELSE "read"

\* The chunk read: it is decoded onto the buffer, which is split into its
\* complete lines and the rest.
Deliver(n) ==
    LET decoded == TextDecode(pending, SubSeq(stream, pos + 1, pos + n))
        parts == SplitLines(buffer \o decoded.text)
    IN  /\ pos' = pos + n
        /\ pending' = decoded.pend
        /\ lines' = SubSeq(parts, 1, Len(parts) - 1)
        /\ buffer' = parts[Len(parts)]
        /\ ssePc' = IF Len(parts) > 1 THEN "lines" ELSE "read"

\* A read that delivers bytes whether or not the signal has fired.
ReadChunk_ignoresSignal ==
    /\ ssePc = "read" /\ pos < Len(stream)
    /\ \E n \in 1..(Len(stream) - pos) : Deliver(n)
    /\ UNCHANGED <<frames, stream, response, acquired, released, aborted, emitted, sseError>>
    /\ UNCHANGED <<fetches, generated, tokenErrors, handled>>
    /\ UNCHANGED sseRest

\* reader.read() delivers the next bytes, any number of them.  A body that
\* the signal has errored delivers none.
ReadChunk ==
    /\ ssePc = "read" /\ pos < Len(stream) /\ ~aborted
    /\ \E n \in 1..(Len(stream) - pos) : Deliver(n)
    /\ UNCHANGED <<frames, stream, response, acquired, released, aborted, emitted, sseError>>
    /\ UNCHANGED <<fetches, generated, tokenErrors, handled>>
    /\ UNCHANGED sseRest

\* The loop body that lets an exception of the inner try leave the generator.
HandleNextLine_noCatch ==
    /\ ssePc = "lines"
    /\ IF LineThrows(Head(lines))
       THEN /\ ssePc' = "failed" /\ sseError' = "Unexpected token" /\ lines' = <<>>
            /\ emitted' = emitted /\ released' = released + 1
       ELSE /\ emitted' = emitted \o HandleLine(Head(lines))
            /\ lines' = Tail(lines)
            /\ ssePc' = IF HandleLine(Head(lines)) # <<>> THEN "yield"
                        ELSE IF Tail(lines) = <<>> THEN "read" ELSE "lines"
            /\ sseError' = sseError /\ released' = released
    /\ UNCHANGED <<frames, stream, response, acquired, aborted, pos, pending, buffer>>
    /\ handled' = Append(handled, Head(lines))
    /\ UNCHANGED <<fetches, generated, tokenErrors>>
    /\ UNCHANGED sseRest

\* The loop body that takes the [DONE] marker for the end of the stream.
HandleNextLine_stopsAtDone ==
    /\ ssePc = "lines"
    /\ IF Trim(Head(lines)) # <<>> /\ StartsWith(Head(lines), DataPrefix)
            /\ Payload(Head(lines)) = DoneMarker
       THEN /\ ssePc' = "done" /\ lines' = <<>> /\ emitted' = emitted
            /\ released' = released + 1
       ELSE /\ emitted' = emitted \o HandleLine(Head(lines))
            /\ lines' = Tail(lines)
            /\ ssePc' = IF HandleLine(Head(lines)) # <<>> THEN "yield"
                        ELSE IF Tail(lines) = <<>> THEN "read" ELSE "lines"
            /\ released' = released
    /\ UNCHANGED <<frames, stream, response, acquired, aborted, pos, pending, buffer,
                   sseError>>
    /\ handled' = Append(handled, Head(lines))
    /\ UNCHANGED <<fetches, generated, tokenErrors>>
    /\ UNCHANGED sseRest

\* One turn of for (const line of lines): a line that yields a chunk
\* suspends the generator at its yield.
HandleNextLine ==
    /\ ssePc = "lines"
    /\ emitted' = emitted \o HandleLine(Head(lines))
    /\ lines' = Tail(lines)
    /\ ssePc' = IF HandleLine(Head(lines)) # <<>> THEN "yield"
                ELSE IF Tail(lines) = <<>> THEN "read" ELSE "lines"
    /\ UNCHANGED <<frames, stream, response, acquired, released, aborted, pos, pending,
                   buffer, sseError>>
    /\ handled' = Append(handled, Head(lines))
    /\ UNCHANGED <<fetches, generated, tokenErrors>>
    /\ UNCHANGED sseRest

\* A callback failure that leaves the generator through the finally block.
TokenCallbackThrows_propagates ==
    /\ ssePc = "lines" /\ HandleLine(Head(lines)) # <<>>
    /\ tokenErrors' = tokenErrors + 1
    /\ handled' = Append(handled, Head(lines))
    /\ lines' = <<>>
    /\ ssePc' = "failed" /\ sseError' = "callback failed" /\ released' = released + 1
    /\ UNCHANGED <<frames, stream, response, acquired, aborted, pos, pending, buffer,
                   emitted, fetches, generated>>
    /\ UNCHANGED sseRest

\* One turn of the loop for a line with an output-text delta whose
\* await runManager.handleLLMNewToken(deltaText) throws: the await is inside
\* the inner try and before the yield, so the catch logs the error and the
\* loop goes on with the next line.
TokenCallbackThrows ==
    /\ ssePc = "lines" /\ HandleLine(Head(lines)) # <<>>
    /\ tokenErrors' = tokenErrors + 1
    /\ handled' = Append(handled, Head(lines))
    /\ lines' = Tail(lines)
    /\ ssePc' = IF Tail(lines) = <<>> THEN "read" ELSE "lines"
    /\ UNCHANGED <<frames, stream, response, acquired, released, aborted, pos, pending,
                   buffer, emitted, sseError, fetches, generated>>
    /\ UNCHANGED sseRest

\* The consumer asks for the next chunk: the loop goes on after the yield.
Resume ==
    /\ ssePc = "yield"
    /\ ssePc' = IF lines = <<>> THEN "read" ELSE "lines"
    /\ UNCHANGED <<frames, stream, response, acquired, released, aborted, pos, pending,
                   buffer, lines, emitted, sseError>>
    /\ UNCHANGED <<fetches, generated, tokenErrors, handled>>
    /\ UNCHANGED sseRest

\* The consumer stops early (return() on the generator, a break out of
\* for await): the finally block runs from the yield.
ConsumerReturn ==
    /\ ssePc = "yield"
    /\ ssePc' = "returned" /\ released' = released + 1
    /\ UNCHANGED <<frames, stream, response, acquired, aborted, pos, pending, buffer,
                   lines, emitted, sseError>>
    /\ UNCHANGED <<fetches, generated, tokenErrors, handled>>
    /\ UNCHANGED sseRest

\* A rejected read with no finally block around the loop.
ReadFails_noFinally ==
    /\ ssePc = "read"
    /\ ssePc' = "failed"
    /\ sseError' = IF aborted THEN "AbortError" ELSE "read failed"
    /\ UNCHANGED <<frames, stream, response, acquired, released, aborted, pos, pending,
                   buffer, lines, emitted>>
    /\ UNCHANGED <<fetches, generated, tokenErrors, handled>>
    /\ UNCHANGED sseRest

\* A rejected read taken for the end of the stream.
ReadFails_swallowed ==
    /\ ssePc = "read"
    /\ ssePc' = "done" /\ released' = released + 1
    /\ UNCHANGED <<frames, stream, response, acquired, aborted, pos, pending, buffer,
                   lines, emitted, sseError>>
    /\ UNCHANGED <<fetches, generated, tokenErrors, handled>>
    /\ UNCHANGED sseRest

\* await reader.read() rejects: the connection broke, or the signal errored
\* the body.  The rejection leaves the loop through the finally block, which
\* releases the reader, and reaches the caller.
ReadFails ==
    /\ ssePc = "read"
    /\ ssePc' = "failed" /\ released' = released + 1
    /\ sseError' = IF aborted THEN "AbortError" ELSE "read failed"
    /\ UNCHANGED <<frames, stream, response, acquired, aborted, pos, pending, buffer,
                   lines, emitted>>
    /\ UNCHANGED <<fetches, generated, tokenErrors, handled>>
    /\ UNCHANGED sseRest

\* An end of stream that handles what is left in the buffer as a last line.
ReadDone_flushesBuffer ==
    /\ ssePc = "read" /\ pos = Len(stream)
    /\ emitted' = emitted \o HandleLine(buffer)
    /\ ssePc' = "done" /\ released' = released + 1
    /\ UNCHANGED <<frames, stream, response, acquired, aborted, pos, pending, buffer,
                   lines, sseError>>
    /\ UNCHANGED <<fetches, generated, tokenErrors, handled>>
    /\ UNCHANGED sseRest

\* An end of stream that is taken only after a [DONE] marker.
ReadDone_waitsForDoneMarker ==
    /\ ssePc = "read" /\ pos = Len(stream)
    /\ \E i \in 1..Len(frames) : frames[i] = "done"
    /\ ssePc' = "done" /\ released' = released + 1
    /\ UNCHANGED <<frames, stream, response, acquired, aborted, pos, pending, buffer,
                   lines, emitted, sseError>>
    /\ UNCHANGED <<fetches, generated, tokenErrors, handled>>
    /\ UNCHANGED sseRest

\* reader.read() reports done: the loop breaks and the finally block
\* releases the reader.  What is left in the buffer is dropped.
ReadDone ==
    /\ ssePc = "read" /\ pos = Len(stream)
    /\ ssePc' = "done" /\ released' = released + 1
    /\ UNCHANGED <<frames, stream, response, acquired, aborted, pos, pending, buffer,
                   lines, emitted, sseError>>
    /\ UNCHANGED <<fetches, generated, tokenErrors, handled>>
    /\ UNCHANGED sseRest

\* The steps of the generator and of its transport.
DecoderStep == CallApi \/ ReadChunk \/ HandleNextLine \/ Resume \/ ReadDone

NextSSE ==
    \/ CallApi \/ ReadChunk \/ HandleNextLine \/ Resume \/ ReadDone
    \/ Abort \/ ReadFails \/ ConsumerReturn
    \/ Generate \/ TokenCallbackThrows

SpecSSE == InitSSE /\ [][NextSSE]_vars

\* ------------------------------------------- execute: the loop over the items
MaxItems == 3

Nodes == {"InformationExtractionUpstage", "DocumentParsingUpstage", "DocumentChatUpstage"}

\* The options of the operation parameter of each node; the Information
\* Extraction node has none.
Operations(n) ==
    CASE n = "InformationExtractionUpstage" -> {"none"}
      [] n = "DocumentParsingUpstage" -> {"sync", "asyncSubmit", "asyncGet", "asyncList"}
      [] n = "DocumentChatUpstage" -> {"uploadFile", "retrieveFile", "getResponse"}

\* What the try block of one item can come to: "ok", the request answered
\* and the record pushed; "invalid", a throw before the request (a schema
\* that does not parse, no binary data, no request id, no file id);
\* "rejected", the request sent and rejected.
ItemOutcomes(op) ==
    IF op \in {"asyncList", "retrieveFile"} THEN {"ok", "rejected"}
    ELSE {"ok", "invalid", "rejected"}

\* returnData.push({ json: ..., pairedItem: { item: i } })
Record(i, failed) == [pairedItem |-> i, error |-> failed]

\* An execute call of one node on at most MaxItems items.
InitExec ==
    /\ IeIdle /\ SseIdle /\ PairIdle
    /\ node \in Nodes
    /\ operation \in Operations(node)
    /\ \E n \in 0..MaxItems : outcomes \in [1..n -> ItemOutcomes(operation)]
    /\ continueOnFail \in BOOLEAN
    /\ item = 0 /\ returnData = <<>> /\ httpRequests = <<>> /\ execPc = "loop"
    /\ execError = -1 /\ output = <<>>

\* A loop turn that rethrows whatever continueOnFail says.
ProcessItemIE_alwaysThrows ==
    /\ execPc = "loop" /\ node = "InformationExtractionUpstage" /\ item < Len(outcomes)
    /\ httpRequests' = IF outcomes[item + 1] = "invalid" THEN httpRequests
                       ELSE Append(httpRequests, item)
    /\ IF outcomes[item + 1] = "ok"
       THEN /\ returnData' = Append(returnData, Record(item, FALSE))
            /\ item' = item + 1 /\ execPc' = "loop" /\ execError' = execError
       ELSE /\ execPc' = "thrown" /\ execError' = item
            /\ returnData' = returnData /\ item' = item
    /\ UNCHANGED <<node, operation, outcomes, continueOnFail, output>>
    /\ UNCHANGED <<ieVars, sseVars, pairVars>>

\* One turn of the for loop of InformationExtractionUpstage.execute: the
\* parameters and the schema, the request, the push of the record; the catch
\* pushes an error record or rethrows.
ProcessItemIE ==
    /\ execPc = "loop" /\ node = "InformationExtractionUpstage" /\ item < Len(outcomes)
    /\ httpRequests' = IF outcomes[item + 1] = "invalid" THEN httpRequests
                       ELSE Append(httpRequests, item)
    /\ IF outcomes[item + 1] = "ok"
       THEN /\ returnData' = Append(returnData, Record(item, FALSE))
            /\ item' = item + 1 /\ execPc' = "loop" /\ execError' = execError
       ELSE IF continueOnFail
            THEN /\ returnData' = Append(returnData, Record(item, TRUE))
                 /\ item' = item + 1 /\ execPc' = "loop" /\ execError' = execError
            ELSE /\ execPc' = "thrown" /\ execError' = item
                 /\ returnData' = returnData /\ item' = item
    /\ UNCHANGED <<node, operation, outcomes, continueOnFail, output>>
    /\ UNCHANGED <<ieVars, sseVars, pairVars>>

\* One turn of the for loop of DocumentParsingUpstage.execute: the branch of
\* the operation sends one request and pushes one record.
ProcessItemDP ==
    /\ execPc = "loop" /\ node = "DocumentParsingUpstage" /\ item < Len(outcomes)
    /\ operation \in {"sync", "asyncSubmit", "asyncGet", "asyncList"}
    /\ httpRequests' = IF outcomes[item + 1] = "invalid" THEN httpRequests
                       ELSE Append(httpRequests, item)
    /\ IF outcomes[item + 1] = "ok"
       THEN /\ returnData' = Append(returnData, Record(item, FALSE))
            /\ item' = item + 1 /\ execPc' = "loop" /\ execError' = execError
       ELSE IF continueOnFail
            THEN /\ returnData' = Append(returnData, Record(item, TRUE))
                 /\ item' = item + 1 /\ execPc' = "loop" /\ execError' = execError
            ELSE /\ execPc' = "thrown" /\ execError' = item
                 /\ returnData' = returnData /\ item' = item
    /\ UNCHANGED <<node, operation, outcomes, continueOnFail, output>>
    /\ UNCHANGED <<ieVars, sseVars, pairVars>>

\* A loop turn that pushes an error record whatever continueOnFail says.
ProcessItemDC_alwaysContinues ==
    /\ execPc = "loop" /\ node = "DocumentChatUpstage" /\ item < Len(outcomes)
    /\ httpRequests' = IF outcomes[item + 1] = "invalid" THEN httpRequests
                       ELSE Append(httpRequests, item)
    /\ returnData' = Append(returnData, Record(item, outcomes[item + 1] # "ok"))
    /\ item' = item + 1 /\ execPc' = "loop" /\ execError' = execError
    /\ UNCHANGED <<node, operation, outcomes, continueOnFail, output>>
    /\ UNCHANGED <<ieVars, sseVars, pairVars>>

\* One turn of the for loop of DocumentChatUpstage.execute; the catch pushes
\* an error record or throws a NodeOperationError with itemIndex i.
ProcessItemDC ==
    /\ execPc = "loop" /\ node = "DocumentChatUpstage" /\ item < Len(outcomes)
    /\ operation \in {"uploadFile", "retrieveFile", "getResponse"}
    /\ httpRequests' = IF outcomes[item + 1] = "invalid" THEN httpRequests
                       ELSE Append(httpRequests, item)
    /\ IF outcomes[item + 1] = "ok"
       THEN /\ returnData' = Append(returnData, Record(item, FALSE))
            /\ item' = item + 1 /\ execPc' = "loop" /\ execError' = execError
       ELSE IF continueOnFail
            THEN /\ returnData' = Append(returnData, Record(item, TRUE))
                 /\ item' = item + 1 /\ execPc' = "loop" /\ execError' = execError
            ELSE /\ execPc' = "thrown" /\ execError' = item
                 /\ returnData' = returnData /\ item' = item
    /\ UNCHANGED <<node, operation, outcomes, continueOnFail, output>>
    /\ UNCHANGED <<ieVars, sseVars, pairVars>>

\* return [returnData] after the loop
ReturnData ==
    /\ execPc = "loop" /\ item = Len(outcomes)
    /\ output' = <<returnData>> /\ execPc' = "returned"
    /\ UNCHANGED <<node, operation, outcomes, continueOnFail, item, returnData, httpRequests,
                   execError>>
    /\ UNCHANGED <<ieVars, sseVars, pairVars>>

NextExec == ProcessItemIE \/ ProcessItemDP \/ ProcessItemDC \/ ReturnData

SpecExec == InitExec /\ [][NextExec]_vars

\* ------------------------------------- two calls of _streamResponseChunks
\* The bodies of the two calls.
PairStreams ==
    {EncodeFrames(<<"outA", "bad", "outE">>, TRUE),
     EncodeFrames(<<"outU", "outNil", "outC">>, FALSE)}

\* The sizes of the chunks a read delivers, besides all the bytes left.
PairChunkSizes == {4, 9}

\* The locals of call k, which read the buffer of call 1: a buffer declared
\* outside the function.
Locals_sharedBuffer(d, k) == [d[k] EXCEPT !.buffer = d[1].buffer]

\* reader, decoder, buffer and chunkCount are declared in the body of
\* _streamResponseChunks: each call has its own.
Locals(d, k) == d[k]

InitPair ==
    /\ IeIdle /\ SseIdle /\ LoopIdle
    /\ \E s1 \in PairStreams, s2 \in PairStreams :
          dec = [k \in 1..2 |->
                   [stream |-> IF k = 1 THEN s1 ELSE s2, pos |-> 0, pending |-> <<>>,
                    buffer |-> <<>>, chunkCount |-> 0, lines |-> <<>>, emitted |-> <<>>,
                    pc |-> "read"]]

\* await reader.read() of call k resolves with bytes: they are decoded onto
\* the buffer of the call, which is split into lines and the rest.
PairRead(k) ==
    LET c == Locals(dec, k)
    IN  /\ c.pc = "read" /\ c.pos < Len(c.stream)
        /\ \E n \in PairChunkSizes \cup {Len(c.stream) - c.pos} :
              /\ n <= Len(c.stream) - c.pos
              /\ LET decoded == TextDecode(c.pending, SubSeq(c.stream, c.pos + 1, c.pos + n))
                     parts == SplitLines(c.buffer \o decoded.text)
                 IN  dec' = [dec EXCEPT ![k] =
                                [c EXCEPT !.pos = c.pos + n, !.pending = decoded.pend,
                                          !.lines = SubSeq(parts, 1, Len(parts) - 1),
                                          !.buffer = parts[Len(parts)],
                                          !.pc = IF Len(parts) > 1 THEN "lines" ELSE "read"]]
        /\ UNCHANGED <<ieVars, sseVars, loopVars>>

\* One turn of the loop over the lines of call k; a line that yields
\* counts a chunk and suspends the call.
PairLine(k) ==
    LET c == Locals(dec, k)
    IN  /\ c.pc = "lines"
        /\ dec' = [dec EXCEPT ![k] =
                      [c EXCEPT !.emitted = c.emitted \o HandleLine(Head(c.lines)),
                                !.chunkCount = c.chunkCount + Len(HandleLine(Head(c.lines))),
                                !.lines = Tail(c.lines),
                                !.pc = IF HandleLine(Head(c.lines)) # <<>> THEN "yield"
                                       ELSE IF Tail(c.lines) = <<>> THEN "read" ELSE "lines"]]
        /\ UNCHANGED <<ieVars, sseVars, loopVars>>

\* The consumer of call k asks for its next chunk.
PairResume(k) ==
    LET c == Locals(dec, k)
    IN  /\ c.pc = "yield"
        /\ dec' = [dec EXCEPT ![k] =
                      [c EXCEPT !.pc = IF c.lines = <<>> THEN "read" ELSE "lines"]]
        /\ UNCHANGED <<ieVars, sseVars, loopVars>>

\* reader.read() of call k reports done.
PairDone(k) ==
    LET c == Locals(dec, k)
    IN  /\ c.pc = "read" /\ c.pos = Len(c.stream)
        /\ dec' = [dec EXCEPT ![k] = [c EXCEPT !.pc = "done"]]
        /\ UNCHANGED <<ieVars, sseVars, loopVars>>

NextPair == \E k \in 1..2 : PairRead(k) \/ PairLine(k) \/ PairResume(k) \/ PairDone(k)

SpecPair == InitPair /\ [][NextPair]_vars

\* ------------------------------------------- claims: the repair parser
FullString == schemaInputType = "full" /\ rawKind = "string"

\* The Full Response Format parse of the string has ended, with a value or
\* with an error.
ParserFinished == pc \in {"checkFields", "messages", "request", "done", "failed"}

ParseSucceeded == parsedJson # Undefined

\* d is the text of a response-format object: type "json_schema" and an
\* object json_schema.
ValidResponseFormat(d) ==
    /\ JsonValid(d)
    /\ GetField(JsonParse(d), "type") = Str("json_schema")
    /\ IsObject(GetField(JsonParse(d), "json_schema"))

\* raw was made from base by edits of one kind only, at least one.
OnlyEdits(kind) == edits[kind] >= 1 /\ edits = [NoEdits EXCEPT ![kind] = edits[kind]]

\* C1 as stated: whenever JSON.parse accepts the input string, the parser's
\* value is JSON.parse(input) and only the cleansing and the direct parse ran.
C1_FastPathYieldsJsonParse ==
    (FullString /\ JsonValid(raw) /\ ParserFinished)
        => (parsedJson = JsonParse(raw) /\ trace = <<"cleanse", "parse">>)

\* C1 amended: whenever JSON.parse accepts the input string, only the
\* cleansing and the direct parse run, and the parser's value is
\* JSON.parse(input) with the zero-width characters removed from its strings:
\* JSON.parse(input) itself when the input holds none.
C1_FastPathYieldsCleansedParse ==
    (FullString /\ JsonValid(raw) /\ ParserFinished)
        => /\ trace = <<"cleanse", "parse">>
           /\ LET Visible(c) == c \notin {ZW, BOM}
              IN  parsedJson = SelectSeq(JsonParse(raw), Visible)

\* A valid input with a zero-width character in a string went down the fast
\* path to a request, with a value that is not JSON.parse(input).
C1_Witness ==
    /\ FullString /\ JsonValid(raw) /\ edits.zw >= 1 /\ pc = "done"
    /\ trace = <<"cleanse", "parse">> /\ parsedJson # JsonParse(raw)

\* C2: an input that is a valid response-format object without its last N >= 1
\* closing braces (all of them trailing) gets exactly N braces appended, and
\* parses to an object whose type is "json_schema".
C2_MissingBracesAppended ==
    (/\ FullString /\ ValidResponseFormat(base) /\ OnlyEdits("drop")
     /\ edits.drop <= TrailingRun(TrimEnd(base), "}")
     /\ ParserFinished)
        => /\ ParseSucceeded
           /\ cleanedJson = jsonString \o Repeat("}", edits.drop)
           /\ GetField(parsedJson, "type") = Str("json_schema")

\* C3: an input that is a valid response-format object followed by extra
\* closing braces gets exactly the extra braces stripped from its end, and
\* parses to the original object (as the compression leaves its strings).
C3_ExtraBracesStripped ==
    (FullString /\ ValidResponseFormat(base) /\ OnlyEdits("brace") /\ ParserFinished)
        => /\ ParseSucceeded
           /\ cleanedJson \o Repeat("}", edits.brace) = jsonString
           /\ parsedJson = JsonParse(CompressJson(CleanseFull(base)))

\* The output of each stage for an input, and the earliest that is valid JSON.
StageOutputs(s) ==
    LET cleansed == CleanseFull(s)
        compressed == CompressJson(cleansed)
        balanced == BalanceStructure(compressed)
    IN  <<cleansed, compressed, balanced, advancedJsonFix(balanced)>>

EarliestValid(outs) ==
    IF \E i \in 1..Len(outs) : JsonValid(outs[i])
    THEN outs[CHOOSE i \in 1..Len(outs) :
                 JsonValid(outs[i]) /\ \A j \in 1..(i - 1) : ~JsonValid(outs[j])]
    ELSE Undefined

\* C4: the stages run in the order cleanse, parse, compression, balancing,
\* pattern repair, and the value returned is the parse of the earliest stage
\* output that is valid JSON (an error when none is).
C4_EarliestValidStageWins ==
    (FullString /\ ParserFinished)
        => /\ \E n \in 0..5 :
                trace = SubSeq(<<"cleanse", "parse", "compress",
                                 "validateAndFixJsonStructure", "advancedJsonFix">>, 1, n)
           /\ IF EarliestValid(StageOutputs(raw)) = Undefined
              THEN ~ParseSucceeded
              ELSE parsedJson = JsonParse(EarliestValid(StageOutputs(raw)))

\* validateAndFixJsonStructure has returned with both of its parses failed.
AllStagesFailed ==
    /\ FullString /\ (pc = "reparse" \/ ParserFinished)
    /\ trace # <<>> /\ trace[Len(trace)] = "advancedJsonFix"
    /\ ~JsonValid(fixedJson)

C6_RepairIdempotent ==
    pc = "reparse"
        => /\ cleanedJson = validateAndFixJsonStructure(jsonString)
           /\ validateAndFixJsonStructure(cleanedJson) = cleanedJson

\* C7: every request sent carries a response_format with a type and a
\* json_schema field.
C7_RequestHasRequiredFields ==
    \A i \in 1..Len(requests) :
        /\ GetField(requests[i], "type") # Undefined
        /\ GetField(requests[i], "json_schema") # Undefined

\* C8: valid JSON with zero-width characters put anywhere in it parses after
\* the cleansing alone: the direct parse succeeds and no later stage runs.
C8_CleansingAloneParsesZeroWidth ==
    (/\ FullString /\ JsonValid(base) /\ edits.zw + edits.bom >= 1
     /\ edits.drop + edits.brace + edits.bracket = 0
     /\ ParserFinished)
        => (ParseSucceeded /\ trace = <<"cleanse", "parse">>)

\* Zero-width characters, as many as the bound allows, were put into a valid
\* document that JSON.parse then rejects; it was parsed and sent.
C8_Witness ==
    /\ FullString /\ JsonValid(base) /\ edits.zw >= 1 /\ edits.zw + edits.bom = MaxEdits
    /\ edits.drop + edits.brace + edits.bracket = 0
    /\ ~JsonValid(raw) /\ pc = "done"

\* --------------------------------------------- claims: the SSE decoder
\* What the decoder yields for a body delivered as one chunk.
RECURSIVE EmitAll(_)
EmitAll(ls) == IF ls = <<>> THEN <<>> ELSE HandleLine(Head(ls)) \o EmitAll(Tail(ls))

CompleteLines(text) == LET parts == SplitLines(text) IN SubSeq(parts, 1, Len(parts) - 1)

OneChunk(bytes) == EmitAll(CompleteLines(DecodeBytes(<<>>, bytes).text))

\* No handleLLMNewToken callback has thrown.
CallbacksSucceeded == tokenErrors = 0

\* The generator threw after it had begun to read the body.
StreamAborted ==
    ssePc = "failed" /\ acquired > 0 /\ sseError \notin {"read failed", "AbortError"}

\* C9: however the bytes delivered so far were split into chunks, the chunks
\* yielded so far are those yielded for the same bytes delivered as one
\* chunk, and no split makes the generator throw.
C9_ChunkBoundaryIndependent ==
    /\ (ssePc \in {"read", "done"} /\ CallbacksSucceeded)
          => emitted = OneChunk(SubSeq(stream, 1, pos))
    /\ ~StreamAborted

\* A chunk ended inside a two-byte character, in the middle of a line, after
\* a delta had been yielded.
C9_Witness ==
    /\ ssePc = "read" /\ pending = <<"C3">> /\ buffer # <<>> /\ emitted # <<>>

\* The lines of the stream that end in a newline.
CompleteFrames ==
    IF stream = <<>> \/ stream[Len(stream)] = LF THEN frames
    ELSE SubSeq(frames, 1, Len(frames) - 1)

\* The lines that are output-text delta events with a non-empty delta, and
\* the decoded text of the delta of each.
IsOutputFrame(kind) == kind \in {"outA", "outE", "outU", "outC"}

DeltaOf(kind) ==
    CASE kind = "outA" -> <<"a">> [] kind = "outE" -> <<"E9">>
      [] kind = "outU" -> <<"u">> [] kind = "outC" -> <<"c">>

\* An invalid-JSON data line lies between two valid output-text delta lines.
Sandwich(fs) ==
    \E i, j, k \in 1..Len(fs) :
        i < j /\ j < k /\ IsOutputFrame(fs[i]) /\ fs[j] = "bad" /\ IsOutputFrame(fs[k])

\* The delta texts of the output-text lines among fs, in order.
ExpectedTexts(fs) ==
    LET outs == SelectSeq(fs, IsOutputFrame)
    IN  [i \in 1..Len(outs) |-> DeltaOf(outs[i])]

\* C10: a stream with an invalid-JSON data line between valid output-text
\* delta lines is never aborted, and at its end the texts yielded are the
\* deltas of the valid lines, in stream order, with nothing for the invalid one.
C10_InvalidLineSkipped ==
    Sandwich(CompleteFrames)
        => /\ ~StreamAborted
           /\ (ssePc = "done" /\ CallbacksSucceeded)
                => [i \in 1..Len(emitted) |-> emitted[i].text] = ExpectedTexts(CompleteFrames)

\* Such a stream was read to its end and both valid deltas were yielded.
C10_Witness ==
    /\ ssePc = "done" /\ Sandwich(CompleteFrames) /\ Len(emitted) = 2
    /\ emitted[1].text = <<"a">> /\ emitted[2].text = <<"E9">>

\* ------------------------------------------ claims: what the decoder yields
EmittedTexts == [i \in 1..Len(emitted) |-> emitted[i].text]

HasKind(fs, kinds) == \E i \in 1..Len(fs) : fs[i] \in kinds

\* The stream has reasoning-summary deltas and no output-text delta event.
ReasoningOnly(fs) ==
    HasKind(fs, {"reason"}) /\ ~HasKind(fs, {"outA", "outE", "outU", "outC", "outNil"})

\* The text of the reasoning-summary deltas of the script.
ReasoningText == <<"r">>

C12_OnlyOutputTextEmitted ==
    (HasKind(frames, {"reason"}) /\ HasKind(frames, {"outA", "outE", "outU", "outC"}))
        => /\ \A i \in 1..Len(emitted) :
                 \E j \in 1..Len(frames) :
                     IsOutputFrame(frames[j]) /\ emitted[i].text = DeltaOf(frames[j])
           /\ (ssePc = "done" /\ CallbacksSucceeded)
                => EmittedTexts = ExpectedTexts(CompleteFrames)

\* A reasoning-summary delta and then an output-text delta were read to the
\* end and one chunk was yielded.
C12_Witness ==
    /\ ssePc = "done" /\ HasKind(CompleteFrames, {"reason"})
    /\ EmittedTexts = <<<<"E9">>>> /\ frames[1] = "reason"

\* The chunk an output-text delta line of the script is to yield: its delta,
\* and the usage and the conversation id that line carries.
ChunkOf(kind) ==
    [text |-> DeltaOf(kind),
     usage |-> IF kind = "outU" THEN <<"1">> ELSE Undefined,
     conversation_id |-> IF kind = "outU" THEN Str("c1")
                         ELSE IF kind = "outC" THEN Str("c2") ELSE Undefined]

ExpectedChunks(fs) ==
    LET outs == SelectSeq(fs, IsOutputFrame)
    IN  [i \in 1..Len(outs) |-> ChunkOf(outs[i])]

\* C13: the chunks yielded so far are, in stream order, those of the first
\* output-text delta lines with a non-empty delta, one chunk per line, each
\* with the text, the usage and the conversation id of its own line; at the
\* end of the stream every such line has yielded its chunk.
C13_EmissionOrder ==
    /\ Len(emitted) <= Len(ExpectedChunks(frames))
    /\ CallbacksSucceeded => emitted = SubSeq(ExpectedChunks(frames), 1, Len(emitted))
    /\ (ssePc = "done" /\ CallbacksSucceeded) => emitted = ExpectedChunks(CompleteFrames)

\* Two deltas with different metadata, an empty delta between them, were
\* yielded in order.
C13_Witness ==
    /\ ssePc = "done" /\ Len(emitted) = 2
    /\ emitted[1] = [text |-> <<"u">>, usage |-> <<"1">>, conversation_id |-> Str("c1")]
    /\ emitted[2] = [text |-> <<"c">>, usage |-> Undefined, conversation_id |-> Str("c2")]
    /\ HasKind(frames, {"outNil"})

\* ------------------------------------- claims: how the decoder comes to an end
\* The generator has finished: normally, by an error, or by the consumer.
Finished == ssePc \in {"done", "failed", "returned"}

Running == ssePc \in {"read", "lines", "yield"}

\* C14: once the reader has been acquired it is released on every way out of
\* the generator (end of stream, rejected read, return by the consumer), it
\* is released once, and it is not released while the generator may still read.
C14_ReaderReleased ==
    /\ acquired <= 1 /\ released <= acquired
    /\ Running => acquired = 1 /\ released = 0
    /\ Finished => released = acquired

\* The consumer stopped early, after a chunk, and the reader was released.
C14_Witness ==
    /\ ssePc = "returned" /\ acquired = 1 /\ released = 1 /\ emitted # <<>>
    /\ pos < Len(stream)

\* C15: once the abort signal has fired, no further bytes are delivered, and
\* the read that is pending or next issued ends the generator with the
\* reader released and nothing more yielded; until that read, only lines of
\* the chunk read before the signal can still be handled.
C15_CancellationWithinOneRead ==
    [][aborted =>
          /\ pos' = pos
          /\ ssePc = "read" => /\ ssePc' \in {"failed", "done"}
                               /\ released' = 1 /\ emitted' = emitted
          /\ Finished => emitted' = emitted /\ released' = released]_vars

\* The signal fired in the middle of the stream, the next read rejected, and
\* the generator ended with the reader released.
C15_Witness ==
    /\ aborted /\ ssePc = "failed" /\ sseError = "AbortError" /\ released = 1
    /\ emitted # <<>> /\ pos < Len(stream)

\* What the generator has left to do: bytes to read, lines to handle, a
\* yield to resume from, the loop to leave, the call to make.
Measure ==
    3 * (Len(stream) - pos) + 2 * Len(lines)
      + (IF ssePc = "yield" THEN 1 ELSE 0)
      + (IF Finished THEN 0 ELSE 1)
      + (IF ssePc = "call" THEN 1 ELSE 0)

\* C16: the generator finishes for every stream, with or without a [DONE]
\* line: until a signal fires a read can complete, at the end of the bytes
\* as the end of the stream; the loop over the lines always has a line to
\* handle and a yield can be resumed; every step brings the generator nearer
\* to its end; and from the read that reports the end of the stream on,
\* nothing is yielded.
C16_Termination ==
    /\ []((ssePc = "read" /\ ~aborted) => ENABLED (ReadChunk \/ ReadDone))
    /\ []((ssePc = "read" /\ pos = Len(stream) /\ ~aborted) => ENABLED ReadDone)
    /\ [](ssePc = "call" => ENABLED CallApi)
    /\ [](ssePc = "yield" => ENABLED Resume)
    /\ [](ssePc = "lines" => lines # <<>>)
    /\ [][/\ aborted' = aborted => Measure' < Measure
          /\ (ssePc = "done" \/ ssePc' = "done") => emitted' = emitted]_vars

\* A stream without a [DONE] marker was read to its end.
C16_Witness ==
    /\ ssePc = "done" /\ ~HasKind(frames, {"done"}) /\ emitted # <<>> /\ ~aborted

\* A [DONE] line is followed, later in the stream, by an output-text delta.
DoneBeforeOutput(fs) ==
    \E i, j \in 1..Len(fs) : i < j /\ fs[i] = "done" /\ IsOutputFrame(fs[j])

\* C17: a [DONE] line yields nothing and does not end the processing: the
\* generator ends normally only at the end of the stream, and then the
\* output-text deltas after the [DONE] line have been yielded like the others.
C17_DoneDoesNotEnd ==
    DoneBeforeOutput(CompleteFrames)
        => (ssePc = "done"
              => /\ pos = Len(stream)
                 /\ CallbacksSucceeded => EmittedTexts = ExpectedTexts(CompleteFrames))

\* The delta of the line after the [DONE] line was yielded.
C17_Witness ==
    /\ ssePc = "done" /\ frames = <<"done", "event", "outA">> /\ CompleteFrames = frames
    /\ EmittedTexts = << <<"a">> >>

\* C18: a rejected read ends the generator with an error for the caller;
\* what was yielded before it is what the lines completed by the bytes read
\* so far yield, and a normal end is reported only at the end of the stream.
C18_ReadFailurePropagates ==
    /\ ssePc = "done" => pos = Len(stream)
    /\ (ssePc = "failed" /\ acquired = 1)
          => /\ sseError \in {"read failed", "AbortError"}
             /\ released = 1
             /\ CallbacksSucceeded => emitted = OneChunk(SubSeq(stream, 1, pos))

\* A read was rejected in the middle of a line, after a chunk had been yielded.
C18_Witness ==
    /\ ssePc = "failed" /\ sseError = "read failed" /\ emitted # <<>>
    /\ pos < Len(stream) /\ buffer # <<>>

\* C19: at the end of a stream with a frame that carries an output array
\* whose message item has a text, that text has been yielded.
C19_OutputArrayEmitted ==
    (ssePc = "done" /\ HasKind(CompleteFrames, {"msg"}))
        => \E i \in 1..Len(emitted) : emitted[i].text = <<"m">>

\* C20: a response without a body, or with a status that is not ok, makes
\* the call fail with its error before a reader is acquired, a byte is read
\* or a chunk is yielded.
C20_NoBodyFailsFirst ==
    /\ response = "no body" => ssePc = "failed" /\ sseError = "No response body for streaming"
    /\ response = "not ok" => ssePc = "failed" /\ sseError = "Document Chat API error"
    /\ response \in {"no body", "not ok"} => acquired = 0 /\ pos = 0 /\ emitted = <<>>

\* The call got a response without a body.
C20_Witness ==
    /\ response = "no body" /\ ssePc = "failed" /\ acquired = 0 /\ stream # <<>>

\* ------------------------------------------- claims: the requests of a call
\* C22: a call of _streamResponseChunks or of _generate sends one HTTP
\* request, never a second one: once the call has been made one request has
\* been sent, and a rejected fetch or a status that is not ok ends the call
\* with its error after that one request.
C22_OneRequestPerCall ==
    /\ fetches <= 1
    /\ ssePc \notin {"call", "generate"} => fetches = 1
    /\ response \in {"not ok", "rejected"}
          => ssePc = "failed" /\ sseError # "" /\ fetches = 1 /\ generated = <<>>

\* The fetch of a streaming call was rejected and the call failed after its
\* one request.
C22_Witness ==
    /\ frames # <<>> /\ response = "rejected" /\ ssePc = "failed" /\ fetches = 1

\* ------------------------------------------------ claims: the lines of a chunk
\* C25: a chunk is yielded only in the turn of the loop for a line that
\* starts with 'data: '; the turn for any other line (blank, event:, data
\* after a space) yields nothing and does not end the generator.
C25_OnlyDataLinesEmit ==
    [][/\ emitted' # emitted => ssePc = "lines" /\ StartsWith(Head(lines), DataPrefix)
       /\ (ssePc = "lines" /\ ~StartsWith(Head(lines), DataPrefix))
             => emitted' = emitted /\ ssePc' \in {"lines", "read"} /\ sseError' = sseError]_vars

\* A data line that starts with a space was handled and yielded nothing; the
\* line after it yielded its chunk.
C25_Witness ==
    /\ ssePc = "done" /\ Len(emitted) = 1 /\ tokenErrors = 0
    /\ \E i \in 1..Len(handled) : handled[i] = FrameBytes("indented")

\* C26: once the generator reads, the buffer has no newline and is the text
\* received after the last newline received, and the lines handled and
\* still to handle are, once each and in order, the lines that a newline
\* has ended.
C26_PendingLineBuffer ==
    acquired = 1
        => LET parts == SplitLines(DecodeBytes(<<>>, SubSeq(stream, 1, pos)).text)
           IN  /\ buffer = parts[Len(parts)]
               /\ \A i \in 1..Len(buffer) : buffer[i] # LF
               /\ handled \o lines = SubSeq(parts, 1, Len(parts) - 1)

\* Two lines were handled and the bytes read end in the middle of a third.
C26_Witness ==
    /\ ssePc = "read" /\ Len(handled) = 2 /\ buffer # <<>> /\ pos < Len(stream)

\* C28: at the end of a stream whose last line is an output-text delta that
\* no newline ends, that line is still in the buffer, it was not handled,
\* and no chunk was yielded for it.
C28_UnterminatedTailDiscarded ==
    (ssePc = "done" /\ stream # <<>> /\ stream[Len(stream)] # LF
       /\ IsOutputFrame(frames[Len(frames)]))
        => /\ buffer # <<>> /\ Len(handled) = Len(frames) - 1
           /\ Len(emitted) + tokenErrors = Len(ExpectedChunks(CompleteFrames))
           /\ CallbacksSucceeded => emitted = ExpectedChunks(CompleteFrames)

\* A stream of one output-text delta line without its newline ended with
\* nothing yielded.
C28_Witness ==
    /\ ssePc = "done" /\ frames = <<"outA">> /\ stream = FrameBytes("outA")
    /\ emitted = <<>> /\ tokenErrors = 0

\* The payload of the line parses and the inner try throws after the parse.
ThrowsAfterParse(line) ==
    IsPayloadLine(line) /\ JsonValid(Payload(line)) /\ PayloadThrows(Payload(line))

\* C29: an exception thrown in the inner try after the parse (by
\* handleLLMNewToken, by a null payload, by a delta that is not a string)
\* yields no chunk for its line and does not end the generator: the loop
\* goes on with the next line; at the end of the stream every output-text
\* delta line has yielded its chunk or had its callback throw.
C29_FrameFailureSkipped ==
    /\ [](ssePc = "done" => Len(emitted) + tokenErrors = Len(ExpectedChunks(CompleteFrames)))
    /\ [][(tokenErrors' > tokenErrors \/ (ssePc = "lines" /\ ThrowsAfterParse(Head(lines))))
              => /\ emitted' = emitted /\ sseError' = "" /\ released' = released
                 /\ ssePc = "lines" /\ ssePc' \in {"lines", "read"}
                 /\ (lines' # lines => lines' = Tail(lines))]_vars

\* The callback of the first delta threw, and the delta of a later line was
\* yielded and the stream read to its end.
C29_Witness ==
    /\ ssePc = "done" /\ tokenErrors = 1 /\ frames[1] = "outU"
    /\ EmittedTexts = << <<"c">> >>

\* --------------------------------------- claims: the balancing and the advanced fix
\* C24: after the brace and bracket repair the text has as many '{' as '}'
\* and as many '[' as ']', and it differs from the argument only at its tail.
C24_BalancedAfterRepair ==
    pc = "basicParse"
        => /\ Count(fixedJson, "{") = Count(fixedJson, "}")
           /\ Count(fixedJson, "[") = Count(fixedJson, "]")
           /\ \E k \in 0..Len(jsonString) :
                 /\ k <= Len(fixedJson)
                 /\ SubSeq(fixedJson, 1, k) = SubSeq(jsonString, 1, k)
                 /\ \A i \in (k + 1)..Len(jsonString) : jsonString[i] \in {"}", "]"}
                 /\ \A i \in (k + 1)..Len(fixedJson) : fixedJson[i] \in {"}", "]"}

HasTripleBrace(s) ==
    \E i \in 1..(Len(s) - 2) : s[i] = "}" /\ s[i + 1] = "}" /\ s[i + 2] = "}"

\* C30: what advancedJsonFix returns is what the collapse of the runs of
\* three or more '}' to two returns for the same text, without the
\* properties fix, and it has no three consecutive '}'.
C30_PropertiesFixRedundant ==
    pc = "finalParse"
        => /\ fixedJson = CollapseBraces(BalanceStructure(jsonString))
           /\ ~HasTripleBrace(fixedJson)

\* The properties pattern matched the text given to advancedJsonFix.
C30_Witness ==
    /\ pc = "finalParse"
    /\ FixPropertiesClosure(BalanceStructure(jsonString)) # BalanceStructure(jsonString)

C27_FirstFailureAborts ==
    ~continueOnFail
        => /\ execPc = "thrown"
                => /\ outcomes[execError + 1] # "ok"
                   /\ \A k \in 1..execError : outcomes[k] = "ok"
                   /\ item = execError /\ Len(returnData) = execError
                   /\ \A k \in 1..Len(httpRequests) : httpRequests[k] <= execError
                   /\ output = <<>>
           /\ execPc = "returned" => \A k \in 1..Len(outcomes) : outcomes[k] = "ok"
           /\ \A k \in 1..Len(returnData) : ~returnData[k].error

\* Document Chat threw at its second item of three, after the request of
\* that item was rejected.
C27_Witness ==
    /\ ~continueOnFail /\ execPc = "thrown" /\ node = "DocumentChatUpstage"
    /\ outcomes = <<"ok", "rejected", "ok">> /\ execError = 1 /\ httpRequests = <<0, 1>>

\* ------------------------------------------------ claims: two calls at once
\* C21: of two calls of _streamResponseChunks that run interleaved, each has
\* yielded, whenever it waits for a read and at its end, the chunks that the
\* bytes it has read so far yield in a call that runs alone, and has counted
\* them, whatever the other call has done in between.
C21_InterleavedCallsIndependent ==
    \A k \in 1..Len(dec) :
        dec[k].pc \in {"read", "done"}
            => /\ dec[k].emitted = OneChunk(SubSeq(dec[k].stream, 1, dec[k].pos))
               /\ dec[k].chunkCount = Len(dec[k].emitted)
               /\ dec[k].pc = "done" => dec[k].emitted = OneChunk(dec[k].stream)

\* Both calls have ended, each with the chunks of its own stream, after the
\* second call was suspended in the middle of a line while the first ran.
C21_Witness ==
    /\ dec # <<>> /\ dec[1].pc = "done" /\ dec[2].pc = "read"
    /\ dec[1].stream # dec[2].stream /\ dec[2].buffer # <<>> /\ dec[2].emitted # <<>>
    /\ dec[1].emitted # <<>>

====
